---- MODULE Spec2Model ----
(* State-machine model of useSWRPages (src/esm/use-swr-pages.js).            *)
(*                                                                         *)
(* React state (pageCount, pageOffsets, pageSWRs) is held at its latest     *)
(* value: functional updaters are applied in call order, each to its own   *)
(* state cell.  What an evaluation pass (Render) computed from the state   *)
(* it saw - the flags read by loadMore, the page handles and the values    *)
(* captured by their getWithSWR closures - is held separately, so a call   *)
(* made before the next pass works on the captured values, as in the code. *)
EXTENDS Integers, Sequences, FiniteSets, TLC

\* ---------------------------------------------------------------- bounds
MaxPages == 3
MaxEvents == 4
MaxLiveEvents == 3

\* ---------------------------------------------------------------- values
Undef == "undefined"
Null == "null"

Keys == {"K1", "K2"}
PageFns == {"f1", "f2"}

\* what a page's SWR hook hands to withSWR: loading, "d1" loaded, "d1"
\* revalidating, "d1" with a failed revalidation, "d2" loaded, failed load
SWR(d, e, v) ==
  [data |-> d, error |-> e, revalidate |-> "r1", isValidating |-> v,
   mutate |-> "m1"]

Loading == SWR(Undef, Undef, TRUE)

SWRs ==
  {Loading, SWR("d1", Undef, FALSE), SWR("d1", Undef, TRUE),
   SWR("d1", "e1", FALSE), SWR("d2", Undef, FALSE), SWR(Undef, "e1", FALSE)}

\* the caller's SWRToOffset: a pure function of the result and the slot;
\* "d1" is a full page (the next page starts after it), "d2" an empty one
SWRToOffset(swr, id) ==
  IF swr.data = "d1" THEN <<"c1", "c2", "c3", "c4", "c5">>[id + 1] ELSE Null

\* the caller's pageFn, as in the example of the source: a placeholder
\* element while there is no data (nothing after a failed load), else the
\* items of the page
pageFnOut(swr) ==
  CASE swr.data = Undef /\ swr.error # Undef -> "nothing"
    [] swr.data = Undef -> "placeholder"
    [] swr.data = "d2" -> "empty"
    [] OTHER -> "items"

pageCountKey(k) == <<"_swr_page_count_", k>>
pageOffsetKey(k) == <<"_swr_page_offset_", k>>
CacheKeys == {pageCountKey(k) : k \in Keys} \cup {pageOffsetKey(k) : k \in Keys}

\* A value that may be undefined: <<>> when undefined, <<v>> when it is v
None == <<>>
Some(v) == <<v>>

\* JS arrays, 0-based: a read past the end or of a hole is undefined
Get(arr, i) == IF i < Len(arr) THEN arr[i + 1] ELSE Undef

\* the same for pageSWRs, whose elements are None (a hole) or Some(result)
GetSWR(arr, i) == IF i < Len(arr) THEN arr[i + 1] ELSE None

\* the same for an array of page-cache entries, which has no holes
GetPage(arr, i) == IF i < Len(arr) THEN Some(arr[i + 1]) ELSE None

\* arr[i] = v on a copy: pads with holes when i is past the end
SetAt(arr, i, v) ==
  [j \in 1..(IF i + 1 > Len(arr) THEN i + 1 ELSE Len(arr)) |->
     IF j = i + 1 THEN v ELSE Get(arr, j - 1)]

SetSWRAt(arr, i, v) ==
  [j \in 1..(IF i + 1 > Len(arr) THEN i + 1 ELSE Len(arr)) |->
     IF j = i + 1 THEN Some(v) ELSE GetSWR(arr, j - 1)]

Min(S) == CHOOSE x \in S : \A y \in S : x <= y

VARIABLES
  pageKey,        \* prop pageKey as of the latest pass
  pageFn,         \* identity of _pageFn as of the latest pass
  pageCount,      \* useState
  pageOffsets,    \* useState
  pageSWRs,       \* useState
  emptyPageRef,   \* what the latest Page rendering returned, and for which
                  \* slot: emptyPageRef.current is EmptyOf(its dataList)
  cache,          \* the persisted store
  pageCacheMap,   \* module-level Map: key -> page cache
  pages,          \* the memoised handle list of the latest pass
  isReachingEnd,  \* flags computed by the latest pass
  isLoadingMore,
  isEmpty,
  timers,         \* setTimeout callbacks not yet run, FIFO
  toRender,       \* slots whose Page the current pass still has to render
  effectPending,  \* useEffect(() => resetPages()) scheduled, not yet run
  pending,        \* "none" | "batch" (updates from the caller's handler)
                  \*        | "render" (updates outside a handler)
  swrOf,          \* the current result of the SWR hook inside each Page
  events,         \* number of external events so far
  derived,        \* history: per slot, what SWRToOffset last returned in a
                  \* timeout callback since the last reset
  last,           \* history: the step taken last
  restored        \* history: what the initialisers of useState read from
                  \* the persisted store when the hook was mounted

state == <<pageKey, pageFn, pageCount, pageOffsets, pageSWRs, emptyPageRef,
           cache, pageCacheMap, pages, isReachingEnd, isLoadingMore, isEmpty,
           timers, toRender, effectPending, pending, swrOf>>

vars == <<state, events, derived, last, restored>>

\* ------------------------------------------------------ the evaluation pass
\* the closure of getWithSWR(id) reads pageSWRs[id], pageOffsets[id + 1] and
\* pageOffsetKey of the pass that created it
NewHandle(i, key, fn) ==
  [offset |-> Get(pageOffsets, i), pageFn |-> fn, id |-> i,
   cSWR |-> GetSWR(pageSWRs, i), cNext |-> Get(pageOffsets, i + 1), cKey |-> key]

\* the test of lines 172-174 without the comparison of pageFn
KeepHandleIgnoresPageFn(pc, i, fn) ==
  /\ i < Len(pc)
  /\ pc[i + 1].offset = Get(pageOffsets, i)

KeepHandle(pc, i, fn) ==
  /\ i < Len(pc)
  /\ pc[i + 1].offset = Get(pageOffsets, i)
  /\ pc[i + 1].pageFn = fn

PageCacheOf(key) ==
  IF pageCacheMap[key] = None THEN <<>> ELSE pageCacheMap[key][1]

\* the loop of useMemo over the page cache of `key`
PageCacheAfter(key, fn) ==
  LET pc == PageCacheOf(key)
      n == IF pageCount > Len(pc) THEN pageCount ELSE Len(pc)
  IN [j \in 1..n |->
        IF j - 1 < pageCount /\ ~KeepHandle(pc, j - 1, fn)
          THEN NewHandle(j - 1, key, fn)
          ELSE pc[j]]

\* emptyPageRef.current = dataList && !dataList.length
EmptyOf(out) ==
  CASE out = "nothing" -> FALSE
    [] out = "placeholder" -> TRUE
    [] out = "empty" -> TRUE
    [] OTHER -> FALSE

IsReachingEndOf(offsets, count) == Get(offsets, count) = Null
IsLoadingMoreOf(offsets, count) == count > Len(offsets)
IsEmptyOf(offsets, count, ref) ==
  IsReachingEndOf(offsets, count) /\ count = 1 /\ EmptyOf(ref.dataList)

\* one evaluation of the hook body with props (key, fn); React then renders
\* the pages whose element is not the one it rendered before
useSWRPages(key, fn) ==
  LET pc == PageCacheAfter(key, fn)
      p == SubSeq(pc, 1, pageCount)
  IN /\ pageKey' = key
     /\ pageFn' = fn
     /\ isReachingEnd' = IsReachingEndOf(pageOffsets, pageCount)
     /\ isLoadingMore' = IsLoadingMoreOf(pageOffsets, pageCount)
     /\ isEmpty' = IsEmptyOf(pageOffsets, pageCount, emptyPageRef)
     /\ pageCacheMap' = [pageCacheMap EXCEPT ![key] = Some(pc)]
     /\ pages' = p
     /\ toRender' = {i \in 0..(pageCount - 1) :
                       \/ ~KeepHandle(PageCacheOf(key), i, fn)
                       \/ GetPage(pages, i) # Some(p[i + 1])}
     /\ effectPending' = (effectPending \/ key # pageKey)
     /\ pending' = "none"
     /\ UNCHANGED <<pageCount, pageOffsets, pageSWRs, emptyPageRef, cache,
                    timers, swrOf>>

PassDone == toRender = {} /\ ~effectPending

\* re-evaluation after a state update
Render ==
  /\ pending # "none"
  /\ useSWRPages(pageKey, pageFn)
  /\ last' = "Render"
  /\ UNCHANGED <<events, derived, restored>>

\* the parent re-renders with another pageKey
ChangeKey(k) ==
  /\ PassDone /\ pending = "none" /\ events < MaxEvents
  /\ k # pageKey
  /\ useSWRPages(k, pageFn)
  /\ events' = events + 1
  /\ last' = "ChangeKey"
  /\ UNCHANGED <<derived, restored>>

\* the parent re-renders with changed deps: useCallback yields a new _pageFn
ChangePageFn(f) ==
  /\ PassDone /\ pending = "none" /\ events < MaxEvents
  /\ f # pageFn
  /\ useSWRPages(pageKey, f)
  /\ events' = events + 1
  /\ last' = "ChangePageFn"
  /\ UNCHANGED <<derived, restored>>

\* ------------------------------------------------------------- resetPages
\* resetPages without line 112: the page cache of the key is kept
resetPagesKeepsHandles ==
  /\ pageSWRs' = <<>>
  /\ pageCount' = 1
  /\ pageOffsets' = <<Null>>
  /\ cache' = [cache EXCEPT ![pageCountKey(pageKey)] = Some(1),
                            ![pageOffsetKey(pageKey)] = Some(<<Null>>)]
  /\ UNCHANGED pageCacheMap

resetPages ==
  /\ pageSWRs' = <<>>
  /\ pageCount' = 1
  /\ pageOffsets' = <<Null>>
  /\ cache' = [cache EXCEPT ![pageCountKey(pageKey)] = Some(1),
                            ![pageOffsetKey(pageKey)] = Some(<<Null>>)]
  /\ pageCacheMap' = [pageCacheMap EXCEPT ![pageKey] = Some(<<>>)]

\* history: the callbacks still waiting were scheduled before this reset
\* (the reset of the mount, before any event, starts the first list)
Stale(ts) == [j \in DOMAIN ts |-> [ts[j] EXCEPT !.tag = "stale"]]

\* the caller invokes resetPages()
Reset ==
  /\ PassDone /\ pending \in {"none", "batch"} /\ events < MaxEvents
  /\ resetPages
  /\ pending' = "batch"
  /\ events' = events + 1
  /\ timers' = Stale(timers)
  /\ derived' = <<>>
  /\ last' = "Reset"
  /\ UNCHANGED <<pageKey, pageFn, emptyPageRef, pages, isReachingEnd,
                 isLoadingMore, isEmpty, toRender, effectPending, swrOf,
                 restored>>

\* useEffect(() => resetPages(), [resetPages]): after the pass of the mount
\* and of every change of pageKey
ResetEffect ==
  /\ toRender = {} /\ effectPending /\ pending = "none"
  /\ resetPages
  /\ effectPending' = FALSE
  /\ pending' = "render"
  /\ timers' = IF events = 0 THEN timers ELSE Stale(timers)
  /\ derived' = <<>>
  /\ last' = "ResetEffect"
  /\ UNCHANGED <<pageKey, pageFn, emptyPageRef, pages, isReachingEnd,
                 isLoadingMore, isEmpty, toRender, swrOf, events, restored>>

\* --------------------------------------------------------------- loadMore
\* loadMore whose guard tests isLoadingMore only
loadMoreIgnoresEnd ==
  IF isLoadingMore
    THEN UNCHANGED <<pageCount, cache, pending>>
    ELSE /\ pageCount' = pageCount + 1
         /\ cache' = [cache EXCEPT ![pageCountKey(pageKey)] = Some(pageCount + 1)]
         /\ pending' = "batch"

\* loadMore adding 2 to pageCount
loadMoreByTwo ==
  IF isLoadingMore \/ isReachingEnd
    THEN UNCHANGED <<pageCount, cache, pending>>
    ELSE /\ pageCount' = pageCount + 2
         /\ cache' = [cache EXCEPT ![pageCountKey(pageKey)] = Some(pageCount + 2)]
         /\ pending' = "batch"

\* the flags are those of the pass that created this loadMore
loadMore ==
  IF isLoadingMore \/ isReachingEnd
    THEN UNCHANGED <<pageCount, cache, pending>>
    ELSE /\ pageCount' = pageCount + 1
         /\ cache' = [cache EXCEPT ![pageCountKey(pageKey)] = Some(pageCount + 1)]
         /\ pending' = "batch"

\* the caller invokes loadMore()
LoadMore ==
  /\ PassDone /\ pending \in {"none", "batch"} /\ events < MaxEvents
  /\ pageCount < MaxPages
  /\ loadMore
  /\ events' = events + 1
  /\ last' = "LoadMore"
  /\ UNCHANGED <<pageKey, pageFn, pageOffsets, pageSWRs, emptyPageRef,
                 pageCacheMap, pages, isReachingEnd, isLoadingMore, isEmpty,
                 timers, toRender, effectPending, swrOf, derived, restored>>

\* ------------------------------------------------- Page and getWithSWR(id)
\* data, error and revalidate of `swr` are those of the stored result `r`
SameIdentity(r, swr) ==
  /\ r # None
  /\ r[1].data = swr.data
  /\ r[1].error = swr.error
  /\ r[1].revalidate = swr.revalidate

\* withSWR of handle h, on the values its closure captured; the history tag
\* says whether the result differs from the one stored at this moment
getWithSWR(h, swr) ==
  IF ~SameIdentity(h.cSWR, swr)
    THEN timers' = Append(timers,
           [id |-> h.id, swr |-> swr, cNext |-> h.cNext, cKey |-> h.cKey,
            tag |-> IF SameIdentity(GetSWR(pageSWRs, h.id), swr)
                      THEN "same" ELSE "new"])
    ELSE UNCHANGED timers

\* the Page component for slot i: pageFn calls withSWR with the result of
\* its SWR hook and returns its items
Page(i, swr) ==
  /\ getWithSWR(pages[i + 1], swr)
  /\ emptyPageRef' = [slot |-> i, dataList |-> pageFnOut(swr)]
  /\ UNCHANGED <<pageKey, pageFn, pageCount, pageOffsets, pageSWRs, cache,
                 pageCacheMap, pages, isReachingEnd, isLoadingMore, isEmpty,
                 effectPending, pending, derived>>

\* the pass renders, in order, the pages whose element it replaced
RenderPage ==
  /\ toRender # {}
  /\ Page(Min(toRender), swrOf[Min(toRender) + 1])
  /\ toRender' = toRender \ {Min(toRender)}
  /\ last' = "RenderPage"
  /\ UNCHANGED <<events, swrOf, restored>>

\* the SWR hook of a mounted page yields another result: the page re-renders
Revalidate(i, swr) ==
  /\ PassDone /\ pending = "none" /\ events < MaxEvents
  /\ i < Len(pages)
  /\ swr # swrOf[i + 1]
  /\ Page(i, swr)
  /\ swrOf' = [swrOf EXCEPT ![i + 1] = swr]
  /\ events' = events + 1
  /\ last' = "Revalidate"
  /\ UNCHANGED <<toRender, restored>>

\* the callback persisting under the key of the latest pass instead of the
\* pageOffsetKey its closure captured
TimeoutCurrentKey(t) ==
  /\ pageSWRs' = SetSWRAt(pageSWRs, t.id, t.swr)
  /\ IF t.swr.data # Undef /\ t.cNext # SWRToOffset(t.swr, t.id)
       THEN /\ pageOffsets' = SetAt(pageOffsets, t.id + 1, SWRToOffset(t.swr, t.id))
            /\ cache' = [cache EXCEPT ![pageOffsetKey(pageKey)] =
                           Some(SetAt(pageOffsets, t.id + 1, SWRToOffset(t.swr, t.id)))]
       ELSE UNCHANGED <<pageOffsets, cache>>

\* the callback writing _arr[id + 2] instead of _arr[id + 1]
TimeoutSkipsSlot(t) ==
  /\ pageSWRs' = SetSWRAt(pageSWRs, t.id, t.swr)
  /\ IF t.swr.data # Undef /\ t.cNext # SWRToOffset(t.swr, t.id)
       THEN /\ pageOffsets' = SetAt(pageOffsets, t.id + 2, SWRToOffset(t.swr, t.id))
            /\ cache' = [cache EXCEPT ![pageOffsetKey(t.cKey)] =
                           Some(SetAt(pageOffsets, t.id + 2, SWRToOffset(t.swr, t.id)))]
       ELSE UNCHANGED <<pageOffsets, cache>>

\* the callback writing _arr[id] instead of _arr[id + 1]
TimeoutWritesOwnSlot(t) ==
  /\ pageSWRs' = SetSWRAt(pageSWRs, t.id, t.swr)
  /\ IF t.swr.data # Undef /\ t.cNext # SWRToOffset(t.swr, t.id)
       THEN /\ pageOffsets' = SetAt(pageOffsets, t.id, SWRToOffset(t.swr, t.id))
            /\ cache' = [cache EXCEPT ![pageOffsetKey(t.cKey)] =
                           Some(SetAt(pageOffsets, t.id, SWRToOffset(t.swr, t.id)))]
       ELSE UNCHANGED <<pageOffsets, cache>>

\* the callback without the test of line 149: it derives a cursor from a
\* result without data too
TimeoutDerivesAlways(t) ==
  /\ pageSWRs' = SetSWRAt(pageSWRs, t.id, t.swr)
  /\ IF t.cNext # SWRToOffset(t.swr, t.id)
       THEN /\ pageOffsets' = SetAt(pageOffsets, t.id + 1, SWRToOffset(t.swr, t.id))
            /\ cache' = [cache EXCEPT ![pageOffsetKey(t.cKey)] =
                           Some(SetAt(pageOffsets, t.id + 1, SWRToOffset(t.swr, t.id)))]
       ELSE UNCHANGED <<pageOffsets, cache>>

\* the callback with the test of line 152 inverted
TimeoutWritesWhenEqual(t) ==
  /\ pageSWRs' = SetSWRAt(pageSWRs, t.id, t.swr)
  /\ IF t.swr.data # Undef /\ t.cNext = SWRToOffset(t.swr, t.id)
       THEN /\ pageOffsets' = SetAt(pageOffsets, t.id + 1, SWRToOffset(t.swr, t.id))
            /\ cache' = [cache EXCEPT ![pageOffsetKey(t.cKey)] =
                           Some(SetAt(pageOffsets, t.id + 1, SWRToOffset(t.swr, t.id)))]
       ELSE UNCHANGED <<pageOffsets, cache>>

\* the setTimeout callback of getWithSWR
Timeout(t) ==
  /\ pageSWRs' = SetSWRAt(pageSWRs, t.id, t.swr)
  /\ IF t.swr.data # Undef /\ t.cNext # SWRToOffset(t.swr, t.id)
       THEN /\ pageOffsets' = SetAt(pageOffsets, t.id + 1, SWRToOffset(t.swr, t.id))
            /\ cache' = [cache EXCEPT ![pageOffsetKey(t.cKey)] =
                           Some(SetAt(pageOffsets, t.id + 1, SWRToOffset(t.swr, t.id)))]
       ELSE UNCHANGED <<pageOffsets, cache>>

\* the oldest callback runs, once the pass and its effects are over
TimerFire ==
  /\ timers # <<>>
  /\ PassDone /\ pending = "none"
  /\ Timeout(Head(timers))
  /\ timers' = Tail(timers)
  /\ pending' = "render"
  /\ derived' = IF Head(timers).swr.data # Undef
                  THEN SetAt(derived, Head(timers).id,
                             SWRToOffset(Head(timers).swr, Head(timers).id))
                  ELSE derived
  /\ last' = "TimerFire"
  /\ UNCHANGED <<pageKey, pageFn, pageCount, emptyPageRef, pageCacheMap,
                 pages, isReachingEnd, isLoadingMore, isEmpty, toRender,
                 effectPending, swrOf, events, restored>>

\* ------------------------------------------------------------ specification
\* the state after the first pass of a fresh mount under K1: nothing
\* persisted, page 0 created and about to render, the mount effect scheduled
Init ==
  /\ pageKey = "K1"
  /\ pageFn = "f1"
  /\ pageCount = 1
  /\ pageOffsets = <<Null>>
  /\ pageSWRs = <<>>
  /\ emptyPageRef = [slot |-> 0, dataList |-> "nothing"]
  /\ cache = [c \in CacheKeys |-> None]
  /\ pageCacheMap = [k \in Keys |->
       IF k = "K1"
         THEN Some(<<[offset |-> Null, pageFn |-> "f1", id |-> 0,
                      cSWR |-> None, cNext |-> Undef, cKey |-> "K1"]>>)
         ELSE None]
  /\ pages = <<[offset |-> Null, pageFn |-> "f1", id |-> 0,
                cSWR |-> None, cNext |-> Undef, cKey |-> "K1"]>>
  /\ isReachingEnd = FALSE
  /\ isLoadingMore = FALSE
  /\ isEmpty = FALSE
  /\ timers = <<>>
  /\ toRender = {0}
  /\ effectPending = TRUE
  /\ pending = "none"
  /\ swrOf = [i \in 1..MaxPages |-> Loading]
  /\ events = 0
  /\ derived = <<>>
  /\ last = "mount"
  /\ restored = [count |-> None, offsets |-> None]

Next ==
  \/ Render
  \/ \E k \in Keys : ChangeKey(k)
  \/ \E f \in PageFns : ChangePageFn(f)
  \/ Reset
  \/ ResetEffect
  \/ LoadMore
  \/ RenderPage
  \/ \E i \in 0..(MaxPages - 1), swr \in SWRs : Revalidate(i, swr)
  \/ TimerFire

Spec == Init /\ [][Next]_vars

\* ---------------------------------------------- mounting on a persisted store
\* cache.get(key) || dflt
OrElse(opt, dflt) == IF opt = None THEN dflt ELSE opt[1]

\* what an earlier instance under K1 left in the store when it was unmounted:
\* its pageCount and its cursors, as loadMore and the callbacks persisted them
Persisted ==
  {<<1, <<Null, Null>>>>, <<2, <<Null, "c1">>>>, <<2, <<Null, "c1", "c2">>>>}

Restorable ==
  {[count |-> None, offsets |-> None]} \cup
  {[count |-> Some(p[1]), offsets |-> Some(p[2])] : p \in Persisted}

\* the state after the first pass of a mount under K1 whose store holds the
\* entries of `restored`: the initialisers of useState read them, pageFn is a
\* new function, so the pass creates every handle
InitRemount ==
  /\ restored \in Restorable
  /\ pageKey = "K1"
  /\ pageFn = "f1"
  /\ pageCount = OrElse(restored.count, 1)
  /\ pageOffsets = OrElse(restored.offsets, <<Null>>)
  /\ pageSWRs = <<>>
  /\ emptyPageRef = [slot |-> 0, dataList |-> "nothing"]
  /\ cache = [c \in CacheKeys |->
       CASE c = pageCountKey("K1") -> restored.count
         [] c = pageOffsetKey("K1") -> restored.offsets
         [] OTHER -> None]
  /\ pages = [j \in 1..pageCount |-> NewHandle(j - 1, "K1", "f1")]
  /\ pageCacheMap = [k \in Keys |-> IF k = "K1" THEN Some(pages) ELSE None]
  /\ isReachingEnd = IsReachingEndOf(pageOffsets, pageCount)
  /\ isLoadingMore = IsLoadingMoreOf(pageOffsets, pageCount)
  /\ isEmpty = IsEmptyOf(pageOffsets, pageCount, emptyPageRef)
  /\ timers = <<>>
  /\ toRender = 0..(pageCount - 1)
  /\ effectPending = TRUE
  /\ pending = "none"
  /\ swrOf = [i \in 1..MaxPages |-> Loading]
  /\ events = 0
  /\ derived = <<>>
  /\ last = "mount"

SpecRemount == InitRemount /\ [][Next]_vars

\* ------------------------------------------------------------- scheduling
\* React runs the re-evaluation an update asked for, renders the pages of a
\* pass and runs its effects; the host runs every setTimeout callback.  The
\* caller's actions and the results of the SWR hooks may never come.
Fairness ==
  /\ WF_vars(Render)
  /\ WF_vars(RenderPage)
  /\ WF_vars(ResetEffect)
  /\ WF_vars(TimerFire)

\* the external events of the hook under one key, MaxLiveEvents of them
LiveChangePageFn(f) == events < MaxLiveEvents /\ ChangePageFn(f)
LiveReset == events < MaxLiveEvents /\ Reset
LiveLoadMore == events < MaxLiveEvents /\ LoadMore
LiveRevalidate(i, swr) == events < MaxLiveEvents /\ Revalidate(i, swr)

\* the hook under one key: every step but a change of pageKey
NextOneKey ==
  \/ Render
  \/ \E f \in PageFns : LiveChangePageFn(f)
  \/ LiveReset
  \/ ResetEffect
  \/ LiveLoadMore
  \/ RenderPage
  \/ \E i \in 0..(MaxPages - 1), swr \in SWRs : LiveRevalidate(i, swr)
  \/ TimerFire

LiveSpec == Init /\ [][NextOneKey]_vars /\ Fairness

\* ------------------------------------------------------------------ claims
\* the flags as functions of the current state
LoadingMoreNow == IsLoadingMoreOf(pageOffsets, pageCount)
ReachingEndNow == IsReachingEndOf(pageOffsets, pageCount)

\* no callback waiting, no pass or effect under way, flags up to date
Settled == PassDone /\ pending = "none" /\ timers = <<>>

\* C1: loadMore() called in a state where pageCount > cursors.length or
\* cursors[pageCount] = null changes neither pageCount, cursors, fetchResults
\* nor the persisted store; called when both are false it increases pageCount
\* by exactly 1 and persists the new value.
C1_LoadMoreGuarded ==
  [][LoadMore =>
       IF LoadingMoreNow \/ ReachingEndNow
         THEN UNCHANGED <<pageCount, pageOffsets, pageSWRs, cache>>
         ELSE /\ pageCount' = pageCount + 1
              /\ cache'[pageCountKey(pageKey)] = Some(pageCount')]_vars

\* C2: on a fresh controller (cursors = [null]) a second loadMore() in
\* succession, before slot 0 reported, leaves pageCount at 2, with or without
\* an evaluation pass between the two calls.
C2_SecondLoadMoreNoOp ==
  [][(LoadMore /\ last \in {"LoadMore", "Render"} /\ pageCount = 2
        /\ pageOffsets = <<Null>> /\ pageSWRs = <<>>)
       => pageCount' = 2]_vars

\* C3: pageCount <= cursors.length + 1 in every reachable state.
C3_PageCountBound == pageCount <= Len(pageOffsets) + 1

\* C4: Reset(), from any state, yields pageCount = 1, cursors = [null], no
\* fetchResults and an empty page cache for the key, and persists both
\* values; a change of the key schedules the reset, nothing changes the
\* state before it has run, and the state is the reset state when it has.
C4_ResetYieldsInitial ==
  [][/\ (Reset \/ ResetEffect \/ (effectPending /\ ~effectPending')) =>
          /\ pageCount' = 1
          /\ pageOffsets' = <<Null>>
          /\ pageSWRs' = <<>>
          /\ pageCacheMap'[pageKey'] = Some(<<>>)
          /\ cache'[pageCountKey(pageKey')] = Some(1)
          /\ cache'[pageOffsetKey(pageKey')] = Some(<<Null>>)
     /\ (pageKey' # pageKey => effectPending')
     /\ (effectPending /\ effectPending' =>
           UNCHANGED <<pageCount, pageOffsets, pageSWRs, cache>>)]_vars

\* C4 witness: two pages were shown under K1, the key changed to K2 and the
\* scheduled reset has just run.
C4_Witness ==
  /\ last = "ResetEffect" /\ pageKey = "K2" /\ Len(pages) = 2
  /\ pageCount = 1 /\ pageCacheMap["K2"] = Some(<<>>)
  /\ cache[pageCountKey("K1")] = Some(2)

\* C5 (as claimed): a callback scheduled before a reset and run after it
\* modifies neither cursors, fetchResults nor any persisted entry.
C5_NoLeakAfterReset ==
  [][(TimerFire /\ Head(timers).tag = "stale") =>
       UNCHANGED <<pageOffsets, pageSWRs, cache>>]_vars

\* C5 (amended): a callback scheduled before a reset and run after it is
\* still applied: it stores its result in fetchResults[slot], may write
\* cursors[slot + 1] (then persisting the cursors under the key its handle
\* captured) and changes nothing else: not pageCount, the page caches, the
\* other slots, the other cursors or the other persisted entries.
C5_StaleEffectFrame ==
  [][(TimerFire /\ Head(timers).tag = "stale") =>
       LET t == Head(timers)
       IN /\ GetSWR(pageSWRs', t.id) = Some(t.swr)
          /\ \A j \in 0..(MaxPages + 2) :
               /\ j # t.id => GetSWR(pageSWRs', j) = GetSWR(pageSWRs, j)
               /\ j # t.id + 1 => Get(pageOffsets', j) = Get(pageOffsets, j)
          /\ pageCount' = pageCount
          /\ pageCacheMap' = pageCacheMap
          /\ \A c \in CacheKeys \ {pageOffsetKey(t.cKey)} : cache'[c] = cache[c]
          /\ (pageOffsets' # pageOffsets =>
                cache'[pageOffsetKey(t.cKey)] = Some(pageOffsets'))]_vars

\* C5 witness: under K2, whose persisted cursors are still [null], the
\* cursors are [null, null], written and persisted under K1 by a callback
\* of the K1 list that ran after the reset.
C5_Witness ==
  /\ last = "TimerFire" /\ pageKey = "K2"
  /\ pageOffsets = <<Null, Null>>
  /\ cache[pageOffsetKey("K2")] = Some(<<Null>>)
  /\ cache[pageOffsetKey("K1")] = Some(<<Null, Null>>)

\* C6 (as claimed): once cursors[pageCount] = null, it stays so in every
\* step that is not a reset.
C6_EndIsPermanent ==
  [][(ReachingEndNow /\ ~(Reset \/ ResetEffect)) => ReachingEndNow']_vars

\* C6 (amended): while isReachingEnd is true loadMore() changes nothing, and
\* cursors[pageCount] = null stays so in every step that is neither a reset
\* nor the callback of a result with data for slot pageCount - 1 whose
\* derived cursor is not null.
C6_EndUntilResetOrNewCursor ==
  [][/\ (LoadMore /\ isReachingEnd) =>
          UNCHANGED <<pageCount, pageOffsets, pageSWRs, cache>>
     /\ (isReachingEnd /\ ReachingEndNow /\ ~ReachingEndNow') =>
          \/ Reset
          \/ ResetEffect
          \/ /\ TimerFire
             /\ Head(timers).id = pageCount - 1
             /\ Head(timers).swr.data # Undef
             /\ SWRToOffset(Head(timers).swr, Head(timers).id) # Null]_vars

\* C6 witness: slot 0 derived null, isReachingEnd is true with one page, and
\* loadMore() has just been called.
C6_Witness ==
  /\ last = "LoadMore" /\ isReachingEnd /\ pageCount = 1
  /\ pageOffsets = <<Null, Null>> /\ derived = <<Null>>

\* C7: in a settled state isReachingEnd is true iff SWRToOffset returned null
\* for the latest result of the last slot, and a null derived for any
\* requested slot makes it true whatever pageCount is.
C7_NullIsAuthoritative ==
  Settled =>
    /\ isReachingEnd <=> Get(derived, pageCount - 1) = Null
    /\ \A i \in 0..(pageCount - 1) : Get(derived, i) = Null => isReachingEnd

\* C8: when the callback of a report (slot, r), made since the last reset,
\* has run, fetchResults[slot] holds r, and if r has data then
\* cursors[slot + 1] is the cursor derived from r and the cursors persisted
\* under the handle's key are the cursors.
C8_ReportApplied ==
  [][(TimerFire /\ Head(timers).tag # "stale") =>
       LET t == Head(timers)
       IN /\ GetSWR(pageSWRs', t.id) = Some(t.swr)
          /\ t.swr.data # Undef =>
               /\ Get(pageOffsets', t.id + 1) = SWRToOffset(t.swr, t.id)
               /\ cache'[pageOffsetKey(t.cKey)] = Some(pageOffsets')]_vars

\* C9: a report whose data, error and revalidate are those of the result
\* stored for the slot, when reported and when its callback runs, changes
\* neither fetchResults, cursors nor the persisted store.
C9_SameResultNoWrite ==
  [][(TimerFire /\ Head(timers).tag = "same"
        /\ SameIdentity(GetSWR(pageSWRs, Head(timers).id), Head(timers).swr))
       => UNCHANGED <<pageSWRs, pageOffsets, cache>>]_vars

\* C10: in a settled state whose latest Page rendering is that of slot 0,
\* isEmpty is true iff pageCount = 1, isReachingEnd is true and that
\* rendering returned an empty sequence.
C10_IsEmptyIff ==
  (Settled /\ emptyPageRef.slot = 0) =>
    (isEmpty <=> (pageCount = 1 /\ isReachingEnd
                    /\ emptyPageRef.dataList = "empty"))

\* C11: a hook mounted for a key whose persisted entries hold pageCount = n
\* and cursors = cs is, when the mount has settled, at pageCount = n and
\* cursors = cs, and at pageCount = 1, cursors = [null] when nothing is
\* persisted.
C11_RestoredOnMount ==
  (Settled /\ events = 0) =>
    /\ pageCount = OrElse(restored.count, 1)
    /\ pageOffsets = OrElse(restored.offsets, <<Null>>)

\* the step is the callback of a report made before a reset, run after it
StaleCallback == TimerFire /\ Head(timers).tag = "stale"

\* the step makes cursors[i + 1] exist
CursorAppears(i) ==
  Get(pageOffsets, i + 1) = Undef /\ Get(pageOffsets', i + 1) # Undef

\* C12 (as claimed): cursors.length <= pageCount + 1 in every reachable
\* state, and cursors[i + 1] comes to exist only by the callback of a report
\* for slot i made since the last reset.
C12_CursorsFollowFetches ==
  /\ [](Len(pageOffsets) <= pageCount + 1)
  /\ [][\A i \in 0..(MaxPages + 1) :
          CursorAppears(i) =>
            /\ TimerFire /\ Head(timers).id = i
            /\ Head(timers).tag # "stale"]_vars

\* C12 (amended): cursors.length <= pageCount + 1 is kept by every step
\* other than the callback of a report made before a reset and run after
\* it, and cursors[i + 1] comes to exist only by the callback of a report
\* with data for slot i, made before or after the last reset.
C12_CursorsFollowCallbacks ==
  [][/\ (Len(pageOffsets) <= pageCount + 1 /\ ~StaleCallback) =>
          Len(pageOffsets') <= pageCount' + 1
     /\ \A i \in 0..(MaxPages + 1) :
          CursorAppears(i) =>
            /\ TimerFire /\ Head(timers).id = i
            /\ Head(timers).swr.data # Undef]_vars

\* C12 witness: two pages are requested, both slots have completed and the
\* cursors have the greatest length the bound allows.
C12_Witness ==
  /\ last = "TimerFire" /\ pageCount = 2
  /\ pageOffsets = <<Null, "c1", "c2">> /\ derived = <<"c1", "c2">>

\* C13: every page handle produced for a slot i >= 1 is bound to a cursor
\* that is neither null nor undefined.
C13_HandlesHaveCursor ==
  \A i \in 1..(Len(pages) - 1) :
    pages[i + 1].offset # Null /\ pages[i + 1].offset # Undef

\* C14: cursors[0] = null in every reachable state, in the cursors and in
\* the cursors persisted under every key: no loadMore, reset or callback
\* writes index 0.
C14_FirstCursorNull ==
  /\ Get(pageOffsets, 0) = Null
  /\ \A k \in Keys :
       cache[pageOffsetKey(k)] # None =>
         Get(cache[pageOffsetKey(k)][1], 0) = Null

\* C14 witness: after loadMore() and resetPages() the callback of slot 1 has
\* written cursors[2]; index 0 is still null.
C14_Witness ==
  /\ last = "TimerFire" /\ pageCount = 1
  /\ pageOffsets = <<Null, Undef, "c2">>
  /\ cache[pageOffsetKey("K1")] = Some(<<Null, Undef, "c2">>)

\* C15: pageCount changes only by loadMore (by + 1) or by a reset (to 1);
\* the callback of a report leaves it unchanged; in every step that is not
\* a reset it does not decrease, and it is always >= 1.
C15_PageCountSteps ==
  [][/\ pageCount' # pageCount =>
          \/ LoadMore /\ pageCount' = pageCount + 1
          \/ (Reset \/ ResetEffect) /\ pageCount' = 1
     /\ TimerFire => pageCount' = pageCount
     /\ ~(Reset \/ ResetEffect) => pageCount' >= pageCount
     /\ pageCount >= 1 /\ pageCount' >= 1]_vars

\* C15 witness: loadMore() was called twice and the callback of a report
\* for the third slot has just run, with pageCount still 3.
C15_Witness ==
  /\ last = "TimerFire" /\ pageCount = 3
  /\ GetSWR(pageSWRs, 2) # None

\* the step is a call of withSWR: a Page of the pass or a re-rendered Page
Report == RenderPage \/ (\E i \in 0..(MaxPages - 1), swr \in SWRs : Revalidate(i, swr))

\* C16: a report changes neither pageCount, cursors nor fetchResults in the
\* pass in which it is made; its effect runs after the pass is over; the
\* effects run in the order of the reports; so in a settled state the result
\* stored for a shown slot is (by data, error and revalidate) that of the
\* latest report for it.
C16_DeferredFifoLatest ==
  /\ [][/\ Report => UNCHANGED <<pageCount, pageOffsets, pageSWRs, cache>>
        /\ TimerFire => PassDone /\ timers' = Tail(timers)
        /\ (Report /\ timers' # timers) =>
             SubSeq(timers', 1, Len(timers)) = timers]_vars
  /\ [](Settled =>
         \A i \in 0..(Len(pages) - 1) :
           SameIdentity(GetSWR(pageSWRs, i), swrOf[i + 1]))

\* the step is an evaluation of the hook body
Pass ==
  \/ Render
  \/ \E k \in Keys : ChangeKey(k)
  \/ \E f \in PageFns : ChangePageFn(f)

\* C17: after every evaluation the handle list has exactly pageCount
\* entries and the handle of every slot i < pageCount has cursor cursors[i];
\* the handle cached for slot i under the key (none after a reset) is
\* returned unchanged when its cursor and pageFn are the current ones, and
\* is replaced by a new handle, bound to the current state, otherwise.
C17_HandleProduction ==
  [][Pass =>
       /\ Len(pages') = pageCount
       /\ \A i \in 0..(pageCount - 1) :
            LET old == GetPage(PageCacheOf(pageKey'), i)
            IN /\ pages'[i + 1].offset = Get(pageOffsets, i)
               /\ pages'[i + 1].pageFn = pageFn'
               /\ pageCacheMap'[pageKey'][1][i + 1] = pages'[i + 1]
               /\ IF /\ old # None
                     /\ old[1].offset = Get(pageOffsets, i)
                     /\ old[1].pageFn = pageFn'
                    THEN pages'[i + 1] = old[1]
                    ELSE pages'[i + 1] =
                           [offset |-> Get(pageOffsets, i), pageFn |-> pageFn',
                            id |-> i, cSWR |-> GetSWR(pageSWRs, i),
                            cNext |-> Get(pageOffsets, i + 1),
                            cKey |-> pageKey']]_vars

\* C17 witness: after slot 0 derived 'c1' and loadMore(), the pass returned
\* the handle of slot 0 unchanged (its closure still holds no next cursor)
\* and created the handle of slot 1 with cursor 'c1'.
C17_Witness ==
  /\ last = "Render" /\ pageCount = 2 /\ Len(pages) = 2
  /\ Get(pageOffsets, 1) = "c1"
  /\ pages[1].cNext = Undef /\ pages[2].offset = "c1"

\* C18: the callback of a result whose data is undefined stores the result,
\* error included, in fetchResults[slot]; SWRToOffset is not invoked;
\* cursors, pageCount and the persisted store are unchanged; nothing is
\* fetched or reported again.
C18_NoDataNoCursor ==
  [][(TimerFire /\ Head(timers).swr.data = Undef) =>
       LET t == Head(timers)
       IN /\ GetSWR(pageSWRs', t.id) = Some(t.swr)
          /\ GetSWR(pageSWRs', t.id)[1].error = t.swr.error
          /\ UNCHANGED <<pageOffsets, pageCount, cache, derived>>
          /\ timers' = Tail(timers)
          /\ UNCHANGED swrOf]_vars

\* C18 witness: slot 0 had derived 'c1'; its failed revalidation, without
\* data, is stored with its error and the cursors are still [null, 'c1'].
C18_Witness ==
  /\ last = "TimerFire" /\ pageOffsets = <<Null, "c1">>
  /\ GetSWR(pageSWRs, 0) = Some(SWR(Undef, "e1", FALSE))
  /\ cache[pageOffsetKey("K1")] = Some(<<Null, "c1">>)

\* the step taken last was no reset
NoReset == last \notin {"Reset", "ResetEffect"}

\* the callback of a result with data has run, since the last reset, for
\* every requested slot
AllReported == \A i \in 0..(pageCount - 1) : Get(derived, i) # Undef

\* C19: from any state with pageCount > cursors.length, if no reset occurs
\* and the callback of a result with data eventually has run for every
\* requested slot, then eventually pageCount <= cursors.length.
C19_LoadingEnds ==
  []((LoadingMoreNow /\ []NoReset /\ <>AllReported) => <>(~LoadingMoreNow))

\* C19 witness: loadMore() was called before slot 0 reported; both slots
\* have reported data; the callback of slot 0 has just ended the loading
\* that the latest pass still saw, and the callback of slot 1 is waiting.
C19_Witness ==
  /\ last = "TimerFire" /\ pageCount = 2
  /\ isLoadingMore /\ ~LoadingMoreNow
  /\ derived = <<"c1">>
  /\ timers # <<>> /\ Head(timers).id = 1 /\ Head(timers).swr.data # Undef

====
